---- MODULE Spec2Model ----
(***************************************************************************)
(* Model of the employee_manager upload path: the script app.py, the file   *)
(* classifier and the upload page (components/pages/file_upload.py), the   *)
(* connection pool (components/data/database.py), the activity logger      *)
(* (components/utils/activity_logger.py) and the ETL pipeline the page     *)
(* calls.                                                                  *)
(* The pipeline (etl.py), the configuration (config.py) and the table      *)
(* definitions (components/data/models.py) are not part of the available   *)
(* sources; they are modelled from the design specification.               *)
(***************************************************************************)
EXTENDS Integers, Sequences, FiniteSets, TLC

VARIABLES
    reqFiles,           \* etl_config.required_files: sequence of [type_key, type_name]
    probe,              \* classifier applied to one name: [name, file_type] or NoProbe
    \* ---- one script run of render_file_upload ----
    pc,                 \* position of the script run
    runs,               \* script runs completed
    uploaded_files,     \* the names in the uploader widget, in upload order
    files_dict,         \* type -> save path, built by the classification loop
    unrecognized_files, \* names that matched no fragment
    saved,              \* paths written by this run, one entry per write
    folder,             \* app_config.upload_folder: the paths that exist
    shown,              \* elements put on the page by this run
    \* ---- ETLPipeline.process_files ----
    queue,              \* files of the batch not yet started, in processing order
    cur,                \* the file being processed, or NoFile
    fileStatus,         \* statuses of the files of this batch already logged
    stats,              \* running statistics of the batch
    result,             \* what process_files returned or raised
    \* ---- the relational store ----
    db,                 \* record type -> set of loaded rows
    uploadLog,          \* csv_upload_log, in upload_id order
    valErrors,          \* data_validation_errors
    \* ---- DatabasePool ----
    instance,           \* DatabasePool._instance is set
    poolReady,          \* DatabasePool._pool holds a SimpleConnectionPool
    constructions,      \* calls of DatabasePool() so far
    initAttempts,       \* calls of _initialize_pool so far
    borrowed,           \* connections handed out by getconn and not yet put back
    sess,               \* per session: the get_connection / get_cursor scope it is in
    \* ---- ActivityLogger ----
    activity_logger,    \* _activity_logger: NoLogger or the singleton's Session state
    system_logs,        \* the committed rows of system_logs, in log_id order
    logCall,            \* the log_* call in progress, or the last one with its result
    notified,           \* the calls made to the activity logger, in order
    \* ---- a file held by the caller and submitted more than once ----
    given,              \* its record type and contents, and the store at its last submission
    \* ---- app.py: one run of main ----
    app                 \* how far main has got, and what it has called

classifyVars == <<reqFiles, probe>>
pageVars == <<pc, runs, uploaded_files, files_dict, unrecognized_files, saved, folder, shown>>
etlVars == <<queue, cur, fileStatus, stats, result>>
storeVars == <<db, uploadLog, valErrors>>
singletonVars == <<instance, poolReady, constructions, initAttempts>>
poolVars == <<singletonVars, borrowed, sess>>

loggerVars == <<activity_logger, system_logs, logCall>>

\* what the page and the pipeline never touch
restVars == <<poolVars, loggerVars, given, app>>

nonPoolVars == <<classifyVars, pageVars, etlVars, storeVars, loggerVars, notified, given, app>>

vars == <<classifyVars, pageVars, etlVars, storeVars, poolVars, loggerVars, notified, given, app>>

(***************************************************************************)
(* Bounds of the classifier model.                                         *)
(***************************************************************************)
MaxTable == 2           \* entries of a fragment table
MaxFragLen == 1         \* characters of a fragment
MaxNameLen == 2         \* characters of a file name

(***************************************************************************)
(* Strings are sequences of characters; str.lower() maps each character.   *)
(***************************************************************************)
Chars == {"a", "A", "b"}

LowerChar(c) == CASE c = "A" -> "a" [] c = "E" -> "e" [] OTHER -> c

StrLower(s) == [i \in DOMAIN s |-> LowerChar(s[i])]

\* Python's `f in s` on strings: f occurs in s as a contiguous run.
IsSubstring(f, s) ==
    \E k \in 0..(Len(s) - Len(f)) : SubSeq(s, k + 1, k + Len(f)) = f

StringsUpTo(n) == UNION {[1..k -> Chars] : k \in 0..n}

RecordTypes ==
    {"department", "designation", "employee", "project", "allocation", "timesheet"}

NoType == "None"
NoProbe == [name |-> <<>>, file_type |-> "unset"]

\* One entry of required_files.items(): (type_key, type_name).
Entry(k, f) == [type_key |-> k, type_name |-> f]

\* line 31: type_name.lower() in uploaded_file.name.lower()
FragmentMatches(entry, name) ==
    IsSubstring(StrLower(entry.type_name), StrLower(name))

\* the loop without its break: the last matching key would win
RECURSIVE ClassifyFromNoBreak(_, _, _)
ClassifyFromNoBreak(table, name, i) ==
    IF i > Len(table) THEN NoType
    ELSE LET later == ClassifyFromNoBreak(table, name, i + 1)
         IN IF later # NoType THEN later
            ELSE IF FragmentMatches(table[i], name) THEN table[i].type_key
            ELSE NoType

\* lines 29-33: scan the table in iteration order, break at the first match.
RECURSIVE ClassifyFrom(_, _, _)
ClassifyFrom(table, name, i) ==
    IF i > Len(table) THEN NoType
    ELSE IF FragmentMatches(table[i], name) THEN table[i].type_key
    ELSE ClassifyFrom(table, name, i + 1)

Classify(table, name) == ClassifyFrom(table, name, 1)

\* the test of line 35 dropped: every file is saved and mapped
RecognizedAlways(file_type) == TRUE

\* line 35: `if file_type:`; the keys of the table are non-empty strings, so
\* the test is false exactly for None.
Recognized(file_type) == file_type # NoType

(***************************************************************************)
(* The classifier on its own: any table, any name.                         *)
(***************************************************************************)
TableKeys == {"department", "employee", "project"}

FragmentTables ==
    {t \in UNION {[1..n -> [type_key : TableKeys, type_name : StringsUpTo(MaxFragLen)]]
                    : n \in 0..MaxTable} :
        \A i, j \in DOMAIN t : i # j => t[i].type_key # t[j].type_key}

\* the body of the loop at lines 27-33 for one uploaded file
ClassifyName(name) ==
    /\ probe = NoProbe
    /\ probe' = [name |-> name, file_type |-> Classify(reqFiles, name)]
    /\ UNCHANGED <<reqFiles, pageVars, etlVars, storeVars, notified, restVars>>

(***************************************************************************)
(* The upload page.                                                        *)
(***************************************************************************)
MaxBatch == 2           \* files in the uploader, record types in a mapping
MaxPageRuns == 1        \* script runs of the upload page in one behaviour
MaxRuns == 2            \* direct batch submissions in one behaviour

\* etl_config.required_files as the page sees it: one fragment per record type
EtlRequiredFiles ==
    << Entry("department", <<"d">>), Entry("designation", <<"g">>),
       Entry("employee", <<"e">>), Entry("project", <<"p">>),
       Entry("allocation", <<"a">>), Entry("timesheet", <<"t">>) >>

\* the file names a user uploads
UploadNames ==
    { <<"d">>, <<"g">>, <<"e">>, <<"E", "x">>, <<"p">>, <<"a">>, <<"t">>, <<"x">> }

\* what the uploader can hold: distinct files, in upload order
Batches ==
    {b \in UNION {[1..n -> UploadNames] : n \in 0..MaxBatch} :
        \A i, j \in DOMAIN b : i # j => b[i] # b[j]}

\* line 37: upload_folder / f"{file_type}_{uploaded_file.name}"
SavePath(file_type, name) == [file_type |-> file_type, name |-> name]

EmptyDict == [k \in {} |-> NoType]

DictPut(d, k, v) == [x \in DOMAIN d \cup {k} |-> IF x = k THEN v ELSE d[x]]

EmptyScan == [files_dict |-> EmptyDict, unrecognized_files |-> <<>>, saved |-> <<>>]

\* lines 35-42: the branch taken for one file once its type is known
ScanStep(acc, name, file_type) ==
    IF Recognized(file_type)
    THEN [acc EXCEPT !.files_dict = DictPut(@, file_type, SavePath(file_type, name)),
                     !.saved = Append(@, SavePath(file_type, name))]
    ELSE [acc EXCEPT !.unrecognized_files = Append(@, name)]

\* lines 23-42: the loop over uploaded_files
RECURSIVE ScanFiles(_, _, _)
ScanFiles(table, files, acc) ==
    IF files = <<>> THEN acc
    ELSE ScanFiles(table, Tail(files),
                   ScanStep(acc, Head(files), Classify(table, Head(files))))

\* lines 45-49: the status message
UploadStatus(fd, unrec) ==
    IF DOMAIN fd = {} THEN {}
    ELSE IF unrec # <<>>
    THEN {[kind |-> "upload_warning", count |-> Cardinality(DOMAIN fd), names |-> unrec]}
    ELSE {[kind |-> "upload_success", count |-> Cardinality(DOMAIN fd), names |-> <<>>]}

NoFile == [phase |-> "none"]
NoResult == [kind |-> "none"]
ZeroStats ==
    [records_processed |-> 0, records_success |-> 0, records_failed |-> 0,
     validation_errors |-> [t \in RecordTypes |-> 0]]

(***************************************************************************)
(* The relational store and the file contents.                             *)
(***************************************************************************)
MaxId == 1              \* natural keys are 1..MaxId
MaxRows == 1            \* rows of a file
MaxBad == 1             \* invalid non-referential fields of a row

Ids == 1..MaxId
Null == 0

FKFields(t) ==
    CASE t = "employee" -> {"department_id", "designation_id"}
      [] t \in {"allocation", "timesheet"} -> {"employee_code", "project_id"}
      [] OTHER -> {}

FKTarget(field) ==
    CASE field = "department_id" -> "department"
      [] field = "designation_id" -> "designation"
      [] field = "employee_code" -> "employee"
      [] field = "project_id" -> "project"

\* department_id and designation_id are nullable; the others are required
FKValues(t) == IF t = "employee" THEN Ids \cup {Null} ELSE Ids

OtherFieldNames == <<"name", "value", "date">>

\* a raw row: its natural key (for allocation and timesheet the date part of
\* the composite key), its references, and how many other fields are invalid
RowsOf(t) == [id : Ids, fk : [FKFields(t) -> FKValues(t)], bad : 0..MaxBad]

FileContents(t) ==
    {[malformed |-> TRUE, rows |-> <<>>]} \cup
    {[malformed |-> FALSE, rows |-> r] : r \in UNION {[1..n -> RowsOf(t)] : n \in 0..MaxRows}}

EmptyStore == [t \in RecordTypes |-> {}]

Loaded(row) == [id |-> row.id, fk |-> row.fk]

RowKey(t, r) ==
    IF t \in {"allocation", "timesheet"}
    THEN <<r.id, r.fk["employee_code"], r.fk["project_id"]>>
    ELSE <<r.id>>

(***************************************************************************)
(* Validators (design 4.3).                                                *)
(***************************************************************************)
Resolves(field, v, store) == \E r \in store[FKTarget(field)] : r.id = v

UnresolvedRefs(t, row, store) ==
    {f \in FKFields(t) : row.fk[f] # Null /\ ~Resolves(f, row.fk[f], store)}

\* a validator without the referential rule
FailingFieldsNoRefs(t, row, store) == {OtherFieldNames[i] : i \in 1..row.bad}

\* every failing field of the row, referential or not
FailingFields(t, row, store) ==
    UnresolvedRefs(t, row, store) \cup {OtherFieldNames[i] : i \in 1..row.bad}

(***************************************************************************)
(* Loader (design 4.4).                                                    *)
(***************************************************************************)
\* ProjectAllocation and Timesheet have a surrogate id next to their composite key
HasSerial(t) == t \in {"allocation", "timesheet"}

\* the row as a table stores it when it is new
Stored(table, t, r) ==
    IF HasSerial(t)
    THEN [id |-> r.id, fk |-> r.fk, serial |-> Cardinality(table) + 1]
    ELSE r

\* a loader that inserts without looking for the key
InsertAlways(table, t, r) == table \cup {Stored(table, t, r)}

\* upsert on the natural or composite key: the row with that key is updated
\* in place, a row with a new key is inserted
Upsert(table, t, r) ==
    IF \E x \in table : RowKey(t, x) = RowKey(t, r)
    THEN {IF RowKey(t, x) = RowKey(t, r) THEN [x EXCEPT !.id = r.id, !.fk = r.fk] ELSE x
            : x \in table}
    ELSE table \cup {Stored(table, t, r)}

RECURSIVE UpsertRows(_, _, _, _, _)
UpsertRows(table, t, rows, keep, i) ==
    IF i > Len(rows) THEN table
    ELSE UpsertRows(IF i \in keep THEN Upsert(table, t, Loaded(rows[i])) ELSE table,
                    t, rows, keep, i + 1)

DepOrder ==
    <<"department", "designation", "employee", "project", "allocation", "timesheet">>

\* the keys of the mapping taken in sorted order
ProcessingOrderByName(fd) ==
    LET present(t) == t \in DOMAIN fd
        names == <<"allocation", "department", "designation", "employee", "project",
                   "timesheet">>
        order == SelectSeq(names, present)
    IN [i \in DOMAIN order |-> [file_type |-> order[i], path |-> fd[order[i]]]]

ProcessingOrder(fd) ==
    LET present(t) == t \in DOMAIN fd
        order == SelectSeq(DepOrder, present)
    IN [i \in DOMAIN order |-> [file_type |-> order[i], path |-> fd[order[i]]]]

(***************************************************************************)
(* Run Ledger (design 4.5).                                                *)
(***************************************************************************)
\* failed counted as the rows the validator rejected, whatever the load did
FileOutcomeCountsRejected(f) ==
    [records_processed |-> Len(f.rows),
     records_success |-> Cardinality(f.loaded),
     records_failed |-> Cardinality({i \in DOMAIN f.rows : f.errors[i] # {}})]

FileOutcome(f) ==
    LET processed == Len(f.rows)
        success == Cardinality(f.loaded)
    IN [records_processed |-> processed,
        records_success |-> success,
        records_failed |-> processed - success]

FileStatusOf(f) ==
    LET o == FileOutcome(f)
    IN IF f.outcome \in {"malformed", "rolledback"} THEN "failed"
       ELSE IF o.records_failed = 0 THEN "success"
       ELSE IF o.records_success = 0 THEN "failed"
       ELSE "partial"

LogRow(f, id) ==
    LET o == FileOutcome(f)
    IN [upload_id |-> id, file_type |-> f.file_type,
        status |-> FileStatusOf(f),
        records_processed |-> o.records_processed,
        records_success |-> o.records_success,
        records_failed |-> o.records_failed]

\* a ledger that records one error per rejected row, its first failing field
ErrorRowsFirstOnly(f, id) ==
    {[upload_id |-> id, row |-> i, field_name |-> CHOOSE fld \in f.errors[i] : TRUE]
        : i \in {j \in DOMAIN f.errors : f.errors[j] # {}}}

ErrorRows(f, id) ==
    UNION {{[upload_id |-> id, row |-> i, field_name |-> fld] : fld \in f.errors[i]}
             : i \in DOMAIN f.errors}

AddStats(st, f) ==
    LET o == FileOutcome(f)
    IN [records_processed |-> st.records_processed + o.records_processed,
        records_success |-> st.records_success + o.records_success,
        records_failed |-> st.records_failed + o.records_failed,
        validation_errors |->
            [st.validation_errors EXCEPT ![f.file_type] = @ + Cardinality(ErrorRows(f, 0))]]

(***************************************************************************)
(* Pipeline Orchestrator (design 4.6): the steps of process_files.         *)
(***************************************************************************)
\* Classifying -> Reading(file): the next file of the batch is taken up
StartFile ==
    /\ pc = "pipeline" /\ cur = NoFile /\ queue # <<>>
    /\ cur' = [phase |-> "Reading", file_type |-> Head(queue).file_type,
               path |-> Head(queue).path, malformed |-> FALSE, rows |-> <<>>,
               errors |-> <<>>, loaded |-> {}, outcome |-> "pending"]
    /\ queue' = Tail(queue)
    /\ UNCHANGED <<fileStatus, stats, result, classifyVars, pageVars, storeVars,
                   notified, restVars>>

\* a reader that hands a malformed file on to validation
ReadAsUnchecked(c) ==
    /\ pc = "pipeline" /\ cur.phase = "Reading"
    /\ cur' = [cur EXCEPT !.phase = "Validating", !.malformed = c.malformed,
                          !.rows = c.rows]
    /\ UNCHANGED <<queue, fileStatus, stats, result, classifyVars, pageVars, storeVars,
                   notified, restVars>>

\* Reading(file) of a file with contents c: the stage reader parses the file
\* or fails (MalformedFileError)
ReadAs(c) ==
    /\ pc = "pipeline" /\ cur.phase = "Reading"
    /\ cur' = [cur EXCEPT !.phase = IF c.malformed THEN "Logging" ELSE "Validating",
                          !.malformed = c.malformed,
                          !.rows = c.rows,
                          !.outcome = IF c.malformed THEN "malformed" ELSE "pending"]
    /\ UNCHANGED <<queue, fileStatus, stats, result, classifyVars, pageVars, storeVars,
                   notified, restVars>>

\* Reading(file): the file at the path holds any contents
ReadFile ==
    /\ pc = "pipeline" /\ cur.phase = "Reading"
    /\ \E c \in FileContents(cur.file_type) : ReadAs(c)

\* Validating(file): every row is checked field by field against the store
ValidateFile ==
    /\ pc = "pipeline" /\ cur.phase = "Validating"
    /\ cur' = [cur EXCEPT !.phase = "Loading",
                          !.errors = [i \in DOMAIN cur.rows |->
                                        FailingFields(cur.file_type, cur.rows[i], db)]]
    /\ UNCHANGED <<queue, fileStatus, stats, result, classifyVars, pageVars, storeVars,
                   notified, restVars>>

AcceptedRows(f) == {i \in DOMAIN f.rows : f.errors[i] = {}}

\* a load whose failure leaves the rows written so far in the table
LoadFileNoRollback ==
    /\ pc = "pipeline" /\ cur.phase = "Loading"
    /\ \/ \E skipped \in SUBSET AcceptedRows(cur) :
            LET keep == AcceptedRows(cur) \ skipped
            IN /\ db' = [db EXCEPT ![cur.file_type] =
                            UpsertRows(@, cur.file_type, cur.rows, keep, 1)]
               /\ cur' = [cur EXCEPT !.phase = "Logging", !.loaded = keep,
                                     !.outcome = "committed"]
       \/ /\ db' = [db EXCEPT ![cur.file_type] =
                       UpsertRows(@, cur.file_type, cur.rows, AcceptedRows(cur), 1)]
          /\ cur' = [cur EXCEPT !.phase = "Logging", !.outcome = "rolledback"]
    /\ UNCHANGED <<queue, fileStatus, stats, result, classifyVars, pageVars,
                   uploadLog, valErrors, notified, restVars>>

\* Loading(file): one transaction; it commits the accepted rows (a row the
\* store refuses is skipped) or rolls back as a whole
LoadFile ==
    /\ pc = "pipeline" /\ cur.phase = "Loading"
    /\ \/ \E skipped \in SUBSET AcceptedRows(cur) :
            LET keep == AcceptedRows(cur) \ skipped
            IN /\ db' = [db EXCEPT ![cur.file_type] =
                            UpsertRows(@, cur.file_type, cur.rows, keep, 1)]
               /\ cur' = [cur EXCEPT !.phase = "Logging", !.loaded = keep,
                                     !.outcome = "committed"]
       \/ /\ db' = db
          /\ cur' = [cur EXCEPT !.phase = "Logging", !.outcome = "rolledback"]
    /\ UNCHANGED <<queue, fileStatus, stats, result, classifyVars, pageVars,
                   uploadLog, valErrors, notified, restVars>>

\* the file-processing event handed to the activity-logging collaborator
\* (design 6): file name and counts
ProcessingEvent(f) ==
    LET o == FileOutcome(f)
    IN [event_type |-> "FILE_PROCESSING", filename |-> f.path,
        records_processed |-> o.records_processed,
        records_success |-> o.records_success,
        records_failed |-> o.records_failed]

\* Logged(file): the ledger transaction, after the load transaction resolved;
\* then the activity logger is told, whatever it answers
WriteLedger ==
    /\ pc = "pipeline" /\ cur.phase = "Logging"
    /\ LET id == Len(uploadLog) + 1
       IN /\ uploadLog' = Append(uploadLog, LogRow(cur, id))
          /\ valErrors' = valErrors \cup ErrorRows(cur, id)
    /\ fileStatus' = Append(fileStatus, FileStatusOf(cur))
    /\ stats' = AddStats(stats, cur)
    /\ notified' = Append(notified, ProcessingEvent(cur))
    /\ cur' = NoFile
    /\ UNCHANGED <<queue, result, db, classifyVars, pageVars, restVars>>

\* the stages named in the aggregate message: those with a file not "success"
AffectedStages(statuses, order) ==
    {order[i].file_type : i \in {j \in DOMAIN statuses : statuses[j] # "success"}}

\* Aggregating -> Done: (overallSuccess, message, stats) is returned
Aggregate ==
    /\ pc = "pipeline" /\ cur = NoFile /\ queue = <<>>
    /\ result' = [kind |-> "returned",
                  success |-> \A i \in DOMAIN fileStatus : fileStatus[i] = "success",
                  message |-> AffectedStages(fileStatus, ProcessingOrder(files_dict)),
                  stats |-> stats]
    /\ pc' = "returned"
    /\ UNCHANGED <<queue, cur, fileStatus, stats, classifyVars, storeVars, notified, restVars,
                   runs, uploaded_files, files_dict, unrecognized_files, saved, folder, shown>>

\* an abort that takes the ledger rows of the batch with it
FatalUndoesLedger ==
    /\ pc = "pipeline" /\ cur = NoFile /\ queue # <<>>
    /\ result' = [kind |-> "raised", success |-> FALSE, message |-> {}, stats |-> stats]
    /\ pc' = "raised"
    /\ uploadLog' = SubSeq(uploadLog, 1, Len(uploadLog) - Len(fileStatus))
    /\ valErrors' = {e \in valErrors : e.upload_id <= Len(uploadLog) - Len(fileStatus)}
    /\ UNCHANGED <<queue, cur, fileStatus, stats, classifyVars, db, notified, restVars,
                   runs, uploaded_files, files_dict, unrecognized_files, saved, folder, shown>>

\* Fatal/Infrastructure: a collaborator is unavailable when the next file is
\* due; process_files raises and the files left are not attempted
Fatal ==
    /\ pc = "pipeline" /\ cur = NoFile /\ queue # <<>>
    /\ result' = [kind |-> "raised", success |-> FALSE, message |-> {}, stats |-> stats]
    /\ pc' = "raised"
    /\ UNCHANGED <<queue, cur, fileStatus, stats, classifyVars, storeVars, notified, restVars,
                   runs, uploaded_files, files_dict, unrecognized_files, saved, folder, shown>>

(***************************************************************************)
(* render_file_upload: one script run, step by step.                       *)
(***************************************************************************)
Range(seq) == {seq[i] : i \in DOMAIN seq}

Element(kind, count, names, stages, raw) ==
    [kind |-> kind, count |-> count, names |-> names, stages |-> stages, raw |-> raw]

\* lines 45 and 52: the "Process Files" button is on the page when the mapping
\* is not empty; count 1 when this run is the one in which it was pressed
ProcessButton(fd, click) ==
    IF DOMAIN fd = {} THEN {}
    ELSE {Element("process_button", IF click THEN 1 ELSE 0, <<>>, {}, FALSE)}

\* a page that runs the pipeline on every rendering, asked or not
RenderProcessesUnasked(files, click) ==
    /\ pc = "idle" /\ runs < MaxPageRuns
    /\ LET scan == ScanFiles(reqFiles, files, EmptyScan)
           go == TRUE
       IN /\ uploaded_files' = files
          /\ files_dict' = scan.files_dict
          /\ unrecognized_files' = scan.unrecognized_files
          /\ saved' = scan.saved
          /\ folder' = folder \cup Range(scan.saved)
          /\ shown' = {Element(m.kind, m.count, m.names, {}, FALSE) :
                          m \in UploadStatus(scan.files_dict, scan.unrecognized_files)}
                       \cup ProcessButton(scan.files_dict, click)
          /\ pc' = IF go THEN "pipeline" ELSE "history"
          /\ queue' = IF go THEN ProcessingOrder(scan.files_dict) ELSE <<>>
          /\ cur' = NoFile
          /\ fileStatus' = <<>>
          /\ stats' = ZeroStats
          /\ result' = NoResult
    /\ UNCHANGED <<runs, classifyVars, storeVars, notified, restVars>>

\* lines 14-57: the uploader, the classification loop, the status message and
\* the "Process Files" button; with the button pressed process_files is entered
Render(files, click) ==
    /\ pc = "idle" /\ runs < MaxPageRuns
    /\ LET scan == ScanFiles(reqFiles, files, EmptyScan)
           go == DOMAIN scan.files_dict # {} /\ click
       IN /\ uploaded_files' = files
          /\ files_dict' = scan.files_dict
          /\ unrecognized_files' = scan.unrecognized_files
          /\ saved' = scan.saved
          /\ folder' = folder \cup Range(scan.saved)
          /\ shown' = {Element(m.kind, m.count, m.names, {}, FALSE) :
                          m \in UploadStatus(scan.files_dict, scan.unrecognized_files)}
                       \cup ProcessButton(scan.files_dict, click)
          /\ pc' = IF go THEN "pipeline" ELSE "history"
          /\ queue' = IF go THEN ProcessingOrder(scan.files_dict) ELSE <<>>
          /\ cur' = NoFile
          /\ fileStatus' = <<>>
          /\ stats' = ZeroStats
          /\ result' = NoResult
    /\ UNCHANGED <<runs, classifyVars, storeVars, notified, restVars>>

SumErrors(st) ==
    LET RECURSIVE Sum(_)
        Sum(S) == IF S = {} THEN 0
                  ELSE LET t == CHOOSE x \in S : TRUE
                       IN st.validation_errors[t] + Sum(S \ {t})
    IN Sum(DOMAIN st.validation_errors)

\* lines 59-72: the banner and the error details for what process_files returned
ResultElements(res) ==
    (IF res.success
     THEN {Element("process_success", 0, <<>>, {}, FALSE)}
     ELSE {Element("process_warning", 0, <<>>, res.message, FALSE)})
    \cup
    (IF SumErrors(res.stats) > 0
     THEN {Element("error_details", SumErrors(res.stats), <<>>,
                   {t \in RecordTypes : res.stats.validation_errors[t] > 0}, FALSE)}
     ELSE {})

ShowResult ==
    /\ pc = "returned"
    /\ shown' = shown \cup ResultElements(result)
    /\ pc' = "history"
    /\ UNCHANGED <<runs, uploaded_files, files_dict, unrecognized_files, saved, folder,
                   classifyVars, etlVars, storeVars, notified, restVars>>

\* lines 74-75: st.error(f"Error processing files: {e}"), the exception's own text
ErrorElement == Element("process_error", 0, <<>>, {}, TRUE)

\* a page that calls process_files again when it raised
ShowErrorRetries ==
    /\ pc = "raised"
    /\ shown' = shown \cup {ErrorElement}
    /\ pc' = "pipeline"
    /\ queue' = ProcessingOrder(files_dict)
    /\ cur' = NoFile
    /\ fileStatus' = <<>>
    /\ stats' = ZeroStats
    /\ result' = NoResult
    /\ UNCHANGED <<runs, uploaded_files, files_dict, unrecognized_files, saved, folder,
                   classifyVars, storeVars, notified, restVars>>

ShowError ==
    /\ pc = "raised"
    /\ shown' = shown \cup {ErrorElement}
    /\ pc' = "history"
    /\ UNCHANGED <<runs, uploaded_files, files_dict, unrecognized_files, saved, folder,
                   classifyVars, etlVars, storeVars, notified, restVars>>

\* a history view that deletes the error rows once it has shown them
RenderHistoryClearsErrors ==
    /\ pc = "history"
    /\ \E ok \in BOOLEAN :
         shown' = shown \cup
            {IF ok THEN Element("history", IF Len(uploadLog) < 5 THEN Len(uploadLog) ELSE 5,
                                <<>>, {}, FALSE)
                   ELSE Element("history_error", 0, <<>>, {}, TRUE)}
    /\ pc' = "rendered"
    /\ valErrors' = {}
    /\ UNCHANGED <<runs, uploaded_files, files_dict, unrecognized_files, saved, folder,
                   classifyVars, etlVars, db, uploadLog, notified, restVars>>

\* lines 78-121: the five latest uploads, or the error of the query
RenderHistory ==
    /\ pc = "history"
    /\ \E ok \in BOOLEAN :
         shown' = shown \cup
            {IF ok THEN Element("history", IF Len(uploadLog) < 5 THEN Len(uploadLog) ELSE 5,
                                <<>>, {}, FALSE)
                   ELSE Element("history_error", 0, <<>>, {}, TRUE)}
    /\ pc' = "rendered"
    /\ UNCHANGED <<runs, uploaded_files, files_dict, unrecognized_files, saved, folder,
                   classifyVars, etlVars, storeVars, notified, restVars>>

\* render_file_upload returns: its locals and the run's output are gone
EndRun ==
    /\ pc = "rendered"
    /\ pc' = "idle"
    /\ runs' = runs + 1
    /\ uploaded_files' = <<>>
    /\ files_dict' = EmptyDict
    /\ unrecognized_files' = <<>>
    /\ saved' = <<>>
    /\ shown' = {}
    /\ queue' = <<>>
    /\ cur' = NoFile
    /\ fileStatus' = <<>>
    /\ stats' = ZeroStats
    /\ result' = NoResult
    /\ UNCHANGED <<folder, classifyVars, storeVars, notified, restVars>>

(***************************************************************************)
(* DatabasePool: the singleton and its two scopes, one step per statement  *)
(* that can raise.  Sessions are the threads that run scopes on the pool.  *)
(***************************************************************************)
NumSessions == 2
MaxConstructions == 2   \* calls of DatabasePool()
maxconn == 10

Sessions == 1..NumSessions

IdleScope ==
    [pc |-> "idle", kind |-> "none", conn |-> FALSE, got |-> 0, put |-> 0,
     entered |-> FALSE, body |-> "none", commitCalled |-> FALSE, committed |-> FALSE,
     rollbackCalled |-> FALSE, closeCalled |-> FALSE, exc |-> "none"]

\* a construction that initializes again whenever the pool is unset
ConstructRetries ==
    /\ constructions < MaxConstructions
    /\ constructions' = constructions + 1
    /\ instance' = TRUE
    /\ IF ~poolReady
       THEN /\ initAttempts' = initAttempts + 1
            /\ \E ok \in BOOLEAN : poolReady' = ok
       ELSE UNCHANGED <<initAttempts, poolReady>>
    /\ UNCHANGED <<borrowed, sess, nonPoolVars>>

\* lines 17-39: DatabasePool(); _instance is set before _initialize_pool is
\* called, and _initialize_pool re-raises what SimpleConnectionPool raised:
\* the instance stays cached with _pool unset; a later construction finds
\* _instance set and returns it
Construct ==
    /\ constructions < MaxConstructions
    /\ constructions' = constructions + 1
    /\ instance' = TRUE
    /\ IF ~instance
       THEN /\ initAttempts' = initAttempts + 1
            /\ \E ok \in BOOLEAN : poolReady' = ok
       ELSE UNCHANGED <<initAttempts, poolReady>>
    /\ UNCHANGED <<borrowed, sess, nonPoolVars>>

\* a caller enters `with db_pool.get_connection()` or `with db_pool.get_cursor()`
Enter(s, kind) ==
    /\ instance /\ sess[s].pc = "idle"
    /\ sess' = [sess EXCEPT ![s] = [IdleScope EXCEPT !.pc = "getconn", !.kind = kind]]
    /\ UNCHANGED <<singletonVars, borrowed, nonPoolVars>>

\* lines 43-45: conn = self._pool.getconn(), first half; with _pool unset the
\* call raises, and SimpleConnectionPool raises PoolError when the number of
\* connections in use equals maxconn; conn stays None
GetConn(s) ==
    /\ sess[s].pc = "getconn"
    /\ sess' = IF poolReady /\ borrowed # maxconn
               THEN [sess EXCEPT ![s].pc = "connect"]
               ELSE [sess EXCEPT ![s].exc = "getconn", ![s].pc = "release"]
    /\ UNCHANGED <<singletonVars, borrowed, nonPoolVars>>

\* line 45, second half: the pool connects and enters the connection among
\* those in use, or connecting raises.  SimpleConnectionPool takes no lock
\* (it is the pool for one thread), so the steps of other sessions fall
\* between its test and this entry
Connect(s) ==
    /\ sess[s].pc = "connect"
    /\ \E connects \in BOOLEAN :
         IF connects
         THEN /\ borrowed' = borrowed + 1
              /\ sess' = [sess EXCEPT ![s].conn = TRUE, ![s].got = @ + 1,
                                      ![s].pc = IF sess[s].kind = "cursor"
                                                THEN "cursor" ELSE "body"]
         ELSE /\ borrowed' = borrowed
              /\ sess' = [sess EXCEPT ![s].exc = "getconn", ![s].pc = "release"]
    /\ UNCHANGED <<singletonVars, nonPoolVars>>

\* line 58: cursor = conn.cursor()
OpenCursor(s) ==
    /\ sess[s].pc = "cursor"
    /\ \E ok \in BOOLEAN :
         sess' = [sess EXCEPT ![s].pc = IF ok THEN "body" ELSE "release",
                              ![s].exc = IF ok THEN "none" ELSE "cursor"]
    /\ UNCHANGED <<singletonVars, borrowed, nonPoolVars>>

\* get_cursor without its except clause: a raising body goes to the finally
BodySkipsRollback(s) ==
    /\ sess[s].pc = "body"
    /\ \E how \in {"completed", "exception", "base"} :
         sess' = [sess EXCEPT
                    ![s].entered = TRUE,
                    ![s].body = how,
                    ![s].exc = IF how = "completed" THEN "none" ELSE how,
                    ![s].pc = IF sess[s].kind = "connection" THEN "release"
                              ELSE IF how = "completed" THEN "commit" ELSE "close"]
    /\ UNCHANGED <<singletonVars, borrowed, nonPoolVars>>

\* a get_cursor whose except clause returns the connection at once
BodyReleasesOnException(s) ==
    /\ sess[s].pc = "body"
    /\ \E how \in {"completed", "exception", "base"} :
         sess' = [sess EXCEPT
                    ![s].entered = TRUE,
                    ![s].body = how,
                    ![s].exc = IF how = "completed" THEN "none" ELSE how,
                    ![s].pc = IF sess[s].kind = "connection" THEN "release"
                              ELSE CASE how = "completed" -> "commit"
                                     [] how = "exception" -> "release"
                                     [] how = "base" -> "close"]
    /\ UNCHANGED <<singletonVars, borrowed, nonPoolVars>>

\* lines 46 and 60: the yield; the caller's block completes, raises an
\* Exception, or raises a BaseException that `except Exception` lets through
Body(s) ==
    /\ sess[s].pc = "body"
    /\ \E how \in {"completed", "exception", "base"} :
         sess' = [sess EXCEPT
                    ![s].entered = TRUE,
                    ![s].body = how,
                    ![s].exc = IF how = "completed" THEN "none" ELSE how,
                    ![s].pc = IF sess[s].kind = "connection" THEN "release"
                              ELSE CASE how = "completed" -> "commit"
                                     [] how = "exception" -> "rollback"
                                     [] how = "base" -> "close"]
    /\ UNCHANGED <<singletonVars, borrowed, nonPoolVars>>

\* a commit whose failure goes straight to the finally, with no rollback
CommitSkipsRollback(s) ==
    /\ sess[s].pc = "commit"
    /\ \E ok \in BOOLEAN :
         sess' = [sess EXCEPT ![s].commitCalled = TRUE,
                              ![s].committed = ok,
                              ![s].exc = IF ok THEN "none" ELSE "commit",
                              ![s].pc = "close"]
    /\ UNCHANGED <<singletonVars, borrowed, nonPoolVars>>

\* line 61: conn.commit()
Commit(s) ==
    /\ sess[s].pc = "commit"
    /\ \E ok \in BOOLEAN :
         sess' = [sess EXCEPT ![s].commitCalled = TRUE,
                              ![s].committed = ok,
                              ![s].exc = IF ok THEN "none" ELSE "commit",
                              ![s].pc = IF ok THEN "close" ELSE "rollback"]
    /\ UNCHANGED <<singletonVars, borrowed, nonPoolVars>>

\* lines 62-65: conn.rollback(), log, re-raise; a rollback that raises
\* replaces the exception in flight
Rollback(s) ==
    /\ sess[s].pc = "rollback"
    /\ \E ok \in BOOLEAN :
         sess' = [sess EXCEPT ![s].rollbackCalled = TRUE,
                              ![s].exc = IF ok THEN @ ELSE "rollback",
                              ![s].pc = "close"]
    /\ UNCHANGED <<singletonVars, borrowed, nonPoolVars>>

\* lines 66-67: cursor.close() in the finally of get_cursor
CloseCursor(s) ==
    /\ sess[s].pc = "close"
    /\ \E ok \in BOOLEAN :
         sess' = [sess EXCEPT ![s].closeCalled = TRUE,
                              ![s].exc = IF ok THEN @ ELSE "close",
                              ![s].pc = "release"]
    /\ UNCHANGED <<singletonVars, borrowed, nonPoolVars>>

\* putconn after the yield instead of in a finally: skipped when raising
ReleaseUnlessRaising(s) ==
    /\ sess[s].pc = "release"
    /\ IF sess[s].conn /\ sess[s].exc = "none"
       THEN /\ borrowed' = borrowed - 1
            /\ sess' = [sess EXCEPT ![s].conn = FALSE, ![s].put = @ + 1,
                                    ![s].pc = "exited"]
       ELSE /\ borrowed' = borrowed
            /\ sess' = [sess EXCEPT ![s].pc = "exited"]
    /\ UNCHANGED <<singletonVars, nonPoolVars>>

\* lines 47-52: log and re-raise, and in the finally putconn if conn is set
Release(s) ==
    /\ sess[s].pc = "release"
    /\ IF sess[s].conn
       THEN /\ borrowed' = borrowed - 1
            /\ sess' = [sess EXCEPT ![s].conn = FALSE, ![s].put = @ + 1,
                                    ![s].pc = "exited"]
       ELSE /\ borrowed' = borrowed
            /\ sess' = [sess EXCEPT ![s].pc = "exited"]
    /\ UNCHANGED <<singletonVars, nonPoolVars>>

\* the with statement is left; sess[s].exc is what the caller sees raised
Leave(s) ==
    /\ sess[s].pc = "exited"
    /\ sess' = [sess EXCEPT ![s] = IdleScope]
    /\ UNCHANGED <<singletonVars, borrowed, nonPoolVars>>

(***************************************************************************)
(* ActivityLogger: the singleton and one log_* call at a time, one step    *)
(* per statement that can raise.                                           *)
(***************************************************************************)
MaxLogs == 2            \* rows of system_logs

\* a file the caller holds: nothing is held
NoGiven == [file_type |-> NoType]

\* main is not running
NoMain == [pc |-> "idle", auth |-> "none", bootstrap |-> "none", executed |-> {}, run |-> 0]

\* line 237: _activity_logger = None.  Of the logger: its Session, its engine,
\* the engine argument of the call that built it and of the latest call, and
\* how many times __init__ has run
NoLogger ==
    [Session |-> "unset", engine |-> "unset", built_with |-> "unset", asked |-> "unset",
     inits |-> 0]
NoCall == [pc |-> "idle"]

nonLoggerVars == <<classifyVars, pageVars, etlVars, storeVars, poolVars, notified, given, app>>

\* the engine arguments of get_logger: the application's engine, or none
EngineArgs == {"engine", "None"}

\* lines 45-64: __init__; with no engine given it creates one of its own; when
\* anything raises, engine and Session are set to None
NewLogger(engine, ok, inits) ==
    [Session |-> IF ok THEN "sessionmaker" ELSE "None",
     engine |-> IF ~ok THEN "None" ELSE IF engine = "None" THEN "own" ELSE engine,
     built_with |-> engine, asked |-> engine, inits |-> inits + 1]

\* a get_logger that builds a new logger when the cached one has no Session
GetLoggerRebuilds(engine) ==
    /\ IF activity_logger = NoLogger \/ activity_logger.Session = "None"
       THEN \E ok \in BOOLEAN :
               activity_logger' = NewLogger(engine, ok, activity_logger.inits)
       ELSE activity_logger' = [activity_logger EXCEPT !.asked = engine]
    /\ UNCHANGED <<system_logs, logCall, nonLoggerVars>>

\* lines 239-244 and 42-64: get_logger(engine); the first call constructs
\* the ActivityLogger, every later call returns the object that is cached
GetLogger(engine) ==
    /\ IF activity_logger = NoLogger
       THEN \E ok \in BOOLEAN :
               activity_logger' = NewLogger(engine, ok, activity_logger.inits)
       ELSE activity_logger' = [activity_logger EXCEPT !.asked = engine]
    /\ UNCHANGED <<system_logs, logCall, nonLoggerVars>>

Methods == {"log_event", "log_file_upload", "log_file_processing"}

\* the details argument: None, an empty dict, a dict of plain values, a dict
\* holding a value json cannot encode
DetailKinds == {"None", "empty", "plain", "unserializable"}

\* lines 111, 123: the event type the wrappers pass; log_event takes any
EventTypeOf(method) ==
    CASE method = "log_file_upload" -> "FILE_UPLOAD"
      [] method = "log_file_processing" -> "FILE_PROCESSING"
      [] OTHER -> "EVENT"

\* lines 73-75, 107-111, 113-123: a log_* method is called; log_file_processing
\* builds its details from three counts
CallLog(method, details) ==
    /\ activity_logger # NoLogger /\ logCall.pc \in {"idle", "returned"}
    /\ Len(system_logs) < MaxLogs
    /\ method = "log_file_processing" => details = "plain"
    /\ logCall' = [pc |-> "session", method |-> method,
                   event_type |-> EventTypeOf(method), details |-> details,
                   details_str |-> "None", committed |-> FALSE,
                   failure |-> "none", result |-> "none", rows |-> <<>>]
    /\ UNCHANGED <<activity_logger, system_logs, nonLoggerVars>>

\* log_event without its except clause: the failure reaches the caller
LogFailedRaises(call, why) ==
    [call EXCEPT !.failure = why, !.result = "raised", !.pc = "returned"]

\* lines 103-105: except Exception: logger.error(...); return False
LogFailed(call, why) ==
    [call EXCEPT !.failure = why, !.result = "False", !.pc = "returned"]

\* lines 77-79: without a Session the call returns False
CheckSession ==
    /\ logCall.pc = "session"
    /\ logCall' = IF activity_logger.Session # "None"
                  THEN [logCall EXCEPT !.pc = "dumps"]
                  ELSE [logCall EXCEPT !.failure = "uninitialized", !.result = "False",
                                       !.pc = "returned"]
    /\ UNCHANGED <<activity_logger, system_logs, nonLoggerVars>>

\* lines 81-84: `if details:` is false for None and for {}; json.dumps raises
\* TypeError on a value it cannot encode
DumpDetails ==
    /\ logCall.pc = "dumps"
    /\ logCall' = CASE logCall.details \in {"None", "empty"} ->
                         [logCall EXCEPT !.pc = "commit"]
                    [] logCall.details = "plain" ->
                         [logCall EXCEPT !.details_str = "json", !.pc = "commit"]
                    [] logCall.details = "unserializable" ->
                         LogFailed(logCall, "details")
    /\ UNCHANGED <<activity_logger, system_logs, nonLoggerVars>>

\* lines 87-98: the entry is built, a session opened, the entry added and
\* committed; any of these may raise
AddAndCommit ==
    /\ logCall.pc = "commit"
    /\ \E ok \in BOOLEAN :
         IF ok
         THEN /\ system_logs' = Append(system_logs,
                                       [event_type |-> logCall.event_type,
                                        details |-> logCall.details_str])
              /\ logCall' = [logCall EXCEPT !.committed = TRUE, !.pc = "close"]
         ELSE /\ system_logs' = system_logs
              /\ logCall' = LogFailed(logCall, "database")
    /\ UNCHANGED <<activity_logger, nonLoggerVars>>

\* lines 96 and 100-101: the with block closes the session, then return True
CloseSession ==
    /\ logCall.pc = "close"
    /\ \E ok \in BOOLEAN :
         logCall' = IF ok
                    THEN [logCall EXCEPT !.result = "True", !.pc = "returned"]
                    ELSE LogFailed(logCall, "close")
    /\ UNCHANGED <<activity_logger, system_logs, nonLoggerVars>>

\* the event_type arguments of get_logs: none, or one type
EventTypeArgs == {"None", "FILE_UPLOAD"}

\* lines 169-177: the rows newest first, of the given type if one is given,
\* at most limit of them
RECURSIVE SelectLogs(_, _, _)
SelectLogs(logs, event_type, limit) ==
    IF logs = <<>> \/ limit = 0 THEN <<>>
    ELSE LET last == logs[Len(logs)]
             rest == SubSeq(logs, 1, Len(logs) - 1)
         IN IF event_type = "None" \/ last.event_type = event_type
            THEN <<last>> \o SelectLogs(rest, event_type, limit - 1)
            ELSE SelectLogs(rest, event_type, limit)

\* lines 151-189: get_logs(event_type, limit); an empty DataFrame without a
\* Session and when the query raises, else the rows selected
GetLogs(event_type, limit) ==
    /\ activity_logger # NoLogger /\ logCall.pc \in {"idle", "returned"}
    /\ \E ok \in BOOLEAN :
         LET found == activity_logger.Session # "None" /\ ok
         IN logCall' =
              [pc |-> "returned", method |-> "get_logs", event_type |-> event_type,
               details |-> "None", details_str |-> "None", committed |-> FALSE,
               failure |-> IF activity_logger.Session = "None" THEN "uninitialized"
                           ELSE IF ok THEN "none" ELSE "database",
               result |-> "DataFrame",
               rows |-> IF found THEN SelectLogs(system_logs, event_type, limit)
                        ELSE <<>>]
    /\ UNCHANGED <<activity_logger, system_logs, nonLoggerVars>>

(***************************************************************************)
(* app.py: one run of main, the script Streamlit runs for every            *)
(* interaction.  components/auth.py is not part of the available sources:  *)
(* what require_auth and logout answer is an input.                        *)
(***************************************************************************)
nonAppVars ==
    <<classifyVars, pageVars, etlVars, storeVars, poolVars, loggerVars, notified, given>>

\* lines 116-132: what render_authenticated_app calls after the upload page
TabOrder ==
    << "render_summary_reports", "render_custom_queries", "render_ai_query_assistant",
       "task_summarizer", "render_standard_reports", "render_activity_logs" >>

\* lines 135 and 143-144: the script is run and main is entered
Main ==
    /\ app.pc \in {"idle", "done"} /\ pc = "idle"
    /\ app' = [pc |-> "auth", auth |-> "none", bootstrap |-> "none", executed |-> {},
               run |-> runs]
    /\ UNCHANGED nonAppVars

\* a gate that lets the run through whatever require_auth answered
RequireAuthIgnored ==
    /\ app.pc = "auth"
    /\ \E ok \in BOOLEAN :
         /\ ok => runs < MaxPageRuns
         /\ app' = [app EXCEPT !.auth = IF ok THEN "true" ELSE "false",
                               !.pc = "bootstrap"]
    /\ UNCHANGED nonAppVars

\* lines 137-141: if not auth_manager.require_auth(): return
RequireAuth ==
    /\ app.pc = "auth"
    /\ \E ok \in BOOLEAN :
         /\ ok => runs < MaxPageRuns
         /\ app' = [app EXCEPT !.auth = IF ok THEN "true" ELSE "false",
                               !.pc = IF ok THEN "bootstrap" ELSE "done"]
    /\ UNCHANGED nonAppVars

\* a rendering that goes on to the sidebar without the bootstrap
InitializeDatabaseSkipped ==
    /\ app.pc = "bootstrap"
    /\ app' = [app EXCEPT !.pc = "sidebar"]
    /\ UNCHANGED nonAppVars

\* lines 73-80 and 84: create_tables() is called; what it raises is logged
\* and shown with st.error, and render_authenticated_app goes on
InitializeDatabase ==
    /\ app.pc = "bootstrap"
    /\ \E ok \in BOOLEAN :
         app' = [app EXCEPT !.bootstrap = IF ok THEN "created" ELSE "failed",
                            !.executed = @ \cup {"create_tables"},
                            !.pc = "sidebar"]
    /\ UNCHANGED nonAppVars

\* lines 94-114: the sidebar with the logout button, then the first tab;
\* logout() returns, or ends the script run
Sidebar ==
    /\ app.pc = "sidebar"
    /\ \E logout \in {"not pressed", "returns", "stops"} :
         app' = IF logout = "stops"
                THEN [app EXCEPT !.executed = @ \cup {"logout"}, !.pc = "done"]
                ELSE [app EXCEPT
                        !.executed = @ \cup {"render_file_upload"}
                                       \cup (IF logout = "returns" THEN {"logout"} ELSE {}),
                        !.pc = "file_upload"]
    /\ UNCHANGED nonAppVars

\* line 114: render_file_upload(db_pool), called once in a run of main
RenderFileUpload(files, click) ==
    /\ app.pc = "file_upload" /\ runs = app.run
    /\ Render(files, click)

\* render_file_upload has returned
ReturnFileUpload ==
    /\ app.pc = "file_upload"
    /\ EndRun

\* lines 116-132: the other tabs in order; a tab that raises ends the run
OtherTabs ==
    /\ app.pc = "file_upload" /\ pc = "idle" /\ runs > app.run
    /\ \E k \in 1..Len(TabOrder) :
         app' = [app EXCEPT !.executed = @ \cup {TabOrder[i] : i \in 1..k},
                            !.pc = "done"]
    /\ UNCHANGED nonAppVars

(***************************************************************************)
(* Specifications.                                                         *)
(***************************************************************************)
InitRest ==
    /\ probe = NoProbe
    /\ pc = "idle" /\ runs = 0
    /\ uploaded_files = <<>> /\ files_dict = EmptyDict /\ unrecognized_files = <<>>
    /\ saved = <<>> /\ folder = {} /\ shown = {}
    /\ queue = <<>> /\ cur = NoFile /\ fileStatus = <<>> /\ stats = ZeroStats
    /\ result = NoResult
    /\ instance = FALSE /\ poolReady = FALSE /\ borrowed = 0
    /\ constructions = 0 /\ initAttempts = 0
    /\ sess = [s \in Sessions |-> IdleScope]
    /\ activity_logger = NoLogger /\ system_logs = <<>> /\ logCall = NoCall
    /\ app = NoMain

\* the store before anything was uploaded
InitStore == db = EmptyStore /\ uploadLog = <<>> /\ valErrors = {} /\ notified = <<>>

Init == reqFiles = EtlRequiredFiles /\ InitRest /\ InitStore /\ given = NoGiven

Next ==
    \/ \E files \in Batches, click \in BOOLEAN : Render(files, click)
    \/ StartFile
    \/ ReadFile
    \/ ValidateFile
    \/ LoadFile
    \/ WriteLedger
    \/ Aggregate
    \/ Fatal
    \/ ShowResult
    \/ ShowError
    \/ RenderHistory
    \/ EndRun

Spec == Init /\ [][Next]_vars

InitClassify ==
    reqFiles \in FragmentTables /\ InitRest /\ InitStore /\ given = NoGiven

NextClassify == \E name \in StringsUpTo(MaxNameLen) : ClassifyName(name)

SpecClassify == InitClassify /\ [][NextClassify]_vars

NextPool ==
    \/ Construct
    \/ \E s \in Sessions, kind \in {"connection", "cursor"} : Enter(s, kind)
    \/ \E s \in Sessions : GetConn(s)
    \/ \E s \in Sessions : Connect(s)
    \/ \E s \in Sessions : OpenCursor(s)
    \/ \E s \in Sessions : Body(s)
    \/ \E s \in Sessions : Commit(s)
    \/ \E s \in Sessions : Rollback(s)
    \/ \E s \in Sessions : CloseCursor(s)
    \/ \E s \in Sessions : Release(s)
    \/ \E s \in Sessions : Leave(s)

SpecPool == Init /\ [][NextPool]_vars

(***************************************************************************)
(* The pool shared by more sessions than the ones followed step by step:   *)
(* each of the others holds one connection while inside a scope of its own.*)
(***************************************************************************)
\* lines 41-46: a session elsewhere has acquired a connection
BorrowElsewhere ==
    /\ instance /\ poolReady /\ borrowed < maxconn
    /\ borrowed' = borrowed + 1
    /\ UNCHANGED <<singletonVars, sess, nonPoolVars>>

\* lines 50-52: a session elsewhere has left its scope
ReturnElsewhere ==
    /\ borrowed > Cardinality({s \in Sessions : sess[s].conn})
    /\ borrowed' = borrowed - 1
    /\ UNCHANGED <<singletonVars, sess, nonPoolVars>>

NextExhaust ==
    \/ Construct
    \/ \E s \in Sessions, kind \in {"connection", "cursor"} : Enter(s, kind)
    \/ \E s \in Sessions : GetConn(s)
    \/ \E s \in Sessions : Connect(s)
    \/ \E s \in Sessions : OpenCursor(s)
    \/ \E s \in Sessions : Body(s)
    \/ \E s \in Sessions : Commit(s)
    \/ \E s \in Sessions : Rollback(s)
    \/ \E s \in Sessions : CloseCursor(s)
    \/ \E s \in Sessions : Release(s)
    \/ \E s \in Sessions : Leave(s)
    \/ BorrowElsewhere
    \/ ReturnElsewhere

SpecExhaust == Init /\ [][NextExhaust]_vars

NextLogger ==
    \/ \E engine \in EngineArgs : GetLogger(engine)
    \/ \E method \in Methods, details \in DetailKinds : CallLog(method, details)
    \/ CheckSession
    \/ DumpDetails
    \/ AddAndCommit
    \/ CloseSession

SpecLogger == Init /\ [][NextLogger]_vars

\* the logger written to and read: the log_* calls and get_logs
NextLoggerReads ==
    \/ \E engine \in EngineArgs : GetLogger(engine)
    \/ \E method \in Methods, details \in DetailKinds : CallLog(method, details)
    \/ CheckSession
    \/ DumpDetails
    \/ AddAndCommit
    \/ CloseSession
    \/ \E event_type \in EventTypeArgs, limit \in {1, 50} : GetLogs(event_type, limit)

SpecLoggerReads == Init /\ [][NextLoggerReads]_vars

(***************************************************************************)
(* The pipeline called directly: the inbound batch submission of design    *)
(* section 6, a mapping of record type to file path, any number of times.  *)
(***************************************************************************)
Mappings ==
    {[t \in D |-> SavePath(t, <<>>)] :
        D \in {S \in SUBSET RecordTypes : Cardinality(S) \in 1..MaxBatch}}

\* process_files(mapping) is entered
Enter_process_files(mapping) ==
    /\ pc = "idle" /\ runs < MaxRuns
    /\ files_dict' = mapping
    /\ queue' = ProcessingOrder(mapping)
    /\ cur' = NoFile
    /\ fileStatus' = <<>>
    /\ stats' = ZeroStats
    /\ result' = NoResult
    /\ pc' = "pipeline"
    /\ UNCHANGED <<runs, uploaded_files, unrecognized_files, saved, folder, shown,
                   classifyVars, storeVars, notified, poolVars, loggerVars, app>>

Submit(mapping) == Enter_process_files(mapping) /\ UNCHANGED given

\* the caller has taken the result or the error
Return ==
    /\ pc \in {"returned", "raised"}
    /\ pc' = "idle"
    /\ runs' = runs + 1
    /\ files_dict' = EmptyDict
    /\ queue' = <<>>
    /\ cur' = NoFile
    /\ fileStatus' = <<>>
    /\ stats' = ZeroStats
    /\ result' = NoResult
    /\ UNCHANGED <<uploaded_files, unrecognized_files, saved, folder, shown,
                   classifyVars, storeVars, notified, restVars>>

NextEtl ==
    \/ \E mapping \in Mappings : Submit(mapping)
    \/ StartFile
    \/ ReadFile
    \/ ValidateFile
    \/ LoadFile
    \/ WriteLedger
    \/ Aggregate
    \/ Fatal
    \/ Return

SpecEtl == Init /\ [][NextEtl]_vars

(***************************************************************************)
(* The same file submitted again (design 8): the caller holds one file,    *)
(* and submits it, unchanged, as a batch of its own, any number of times.  *)
(* Earlier uploads have left entities in the store.                        *)
(***************************************************************************)
\* the entity a one-row file without references leaves in its table
SeedRow(t) == [id |-> 1, fk |-> [f \in FKFields(t) |-> Null]]

\* the record types uploaded earlier, in the order of their uploads
SeedOrders ==
    {SelectSeq(DepOrder, LAMBDA t : t \in S) :
        S \in SUBSET {"department", "designation", "employee", "project"}}

\* what the earlier upload of a one-row file of type t has left in the ledger
SeedFile(t) ==
    [file_type |-> t, path |-> SavePath(t, <<>>), malformed |-> FALSE,
     rows |-> <<[id |-> 1, fk |-> [f \in FKFields(t) |-> Null], bad |-> 0]>>,
     errors |-> <<{}>>, loaded |-> {1}, outcome |-> "committed"]

InitResubmit ==
    /\ reqFiles = EtlRequiredFiles /\ InitRest
    /\ \E seeds \in SeedOrders :
          /\ db = [t \in RecordTypes |->
                     IF \E i \in DOMAIN seeds : seeds[i] = t THEN {SeedRow(t)} ELSE {}]
          /\ uploadLog = [i \in DOMAIN seeds |-> LogRow(SeedFile(seeds[i]), i)]
          /\ notified = [i \in DOMAIN seeds |-> ProcessingEvent(SeedFile(seeds[i]))]
          /\ valErrors = {}
          /\ given \in UNION {{[file_type |-> t, contents |-> c, before |-> db,
                                 logged |-> Len(seeds), loggedBefore |-> Len(seeds)] :
                                    c \in FileContents(t)} : t \in RecordTypes}

GivenMapping == [t \in {given.file_type} |-> SavePath(given.file_type, <<>>)]

\* the caller submits the file it holds; the store and the length of the
\* ledger at that moment are remembered
SubmitGiven ==
    /\ Enter_process_files(GivenMapping)
    /\ given' = [given EXCEPT !.before = db, !.loggedBefore = given.logged,
                              !.logged = Len(uploadLog)]

\* Reading(file) of the file the caller holds
ReadGiven ==
    /\ pc = "pipeline" /\ cur.phase = "Reading"
    /\ ReadAs(given.contents)

NextResubmit ==
    \/ SubmitGiven
    \/ StartFile
    \/ ReadGiven
    \/ ValidateFile
    \/ LoadFile
    \/ WriteLedger
    \/ Aggregate
    \/ Fatal
    \/ Return

SpecResubmit == InitResubmit /\ [][NextResubmit]_vars

(***************************************************************************)
(* Batch submissions and renderings of the upload history, one after the   *)
(* other: the page with its mapping already built.                         *)
(***************************************************************************)
NextAudit ==
    \/ \E click \in BOOLEAN : Render(<<>>, click)
    \/ \E mapping \in Mappings : Submit(mapping)
    \/ StartFile
    \/ ReadFile
    \/ ValidateFile
    \/ LoadFile
    \/ WriteLedger
    \/ Aggregate
    \/ Fatal
    \/ ShowResult
    \/ ShowError
    \/ RenderHistory
    \/ EndRun

SpecAudit == Init /\ [][NextAudit]_vars

(***************************************************************************)
(* The script app.py, run from its first line for every interaction.       *)
(***************************************************************************)
NextApp ==
    \/ Main
    \/ RequireAuth
    \/ InitializeDatabase
    \/ Sidebar
    \/ \E files \in Batches, click \in BOOLEAN : RenderFileUpload(files, click)
    \/ StartFile
    \/ ReadFile
    \/ ValidateFile
    \/ LoadFile
    \/ WriteLedger
    \/ Aggregate
    \/ Fatal
    \/ ShowResult
    \/ ShowError
    \/ RenderHistory
    \/ ReturnFileUpload
    \/ OtherTabs

SpecApp == Init /\ [][NextApp]_vars

(***************************************************************************)
(* Properties.                                                             *)
(***************************************************************************)
\* the fragment, lower-cased, occurs in the name, lower-cased, at some offset
LowerContains(fragment, name) ==
    \E off \in 0..(Len(name) - Len(fragment)) :
        \A p \in 1..Len(fragment) : LowerChar(name[off + p]) = LowerChar(fragment[p])

FirstQualifying(table, name) ==
    {i \in DOMAIN table :
        /\ LowerContains(table[i].type_name, name)
        /\ \A j \in 1..(i - 1) : ~LowerContains(table[j].type_name, name)}

MatchesSome(table, name) == \E i \in DOMAIN table : LowerContains(table[i].type_name, name)

\* C1: a name is assigned type K exactly when K is the key of the first entry,
\* in table order, whose lower-cased fragment occurs in the lower-cased name;
\* it is unrecognized exactly when no entry qualifies.
C1_FirstMatchWins ==
    probe # NoProbe =>
        /\ \A k \in TableKeys :
              probe.file_type = k <=>
                  \E i \in FirstQualifying(reqFiles, probe.name) : reqFiles[i].type_key = k
        /\ probe.file_type = NoType <=> ~MatchesSome(reqFiles, probe.name)

\* C1 witness: two entries qualify, the match needs the lower-casing, and the
\* earlier key was assigned.
C1_Witness ==
    /\ probe # NoProbe
    /\ \E i, j \in DOMAIN reqFiles :
          /\ i < j
          /\ LowerContains(reqFiles[i].type_name, probe.name)
          /\ LowerContains(reqFiles[j].type_name, probe.name)
          /\ ~IsSubstring(reqFiles[i].type_name, probe.name)
          /\ reqFiles[i].type_name # <<>>
          /\ probe.file_type = reqFiles[i].type_key

\* C2: no file whose name matches no configured fragment is in the mapping
\* handed to process_files, among the files waiting, or in Reading.
C2_UnclassifiedNeverInPipeline ==
    /\ \A t \in DOMAIN files_dict : MatchesSome(reqFiles, files_dict[t].name)
    /\ \A i \in DOMAIN queue : MatchesSome(reqFiles, queue[i].path.name)
    /\ cur # NoFile => MatchesSome(reqFiles, cur.path.name)

\* C2 witness: a batch with an unrecognized file has a recognized file in Reading.
C2_Witness ==
    /\ pc = "pipeline" /\ cur.phase = "Reading"
    /\ \E i \in DOMAIN uploaded_files : ~MatchesSome(reqFiles, uploaded_files[i])

\* C3: once the classification of a batch is done, every uploaded file whose
\* name matches no fragment appears by name in the displayed status.
C3_UnrecognizedReported ==
    pc # "idle" =>
        \A i \in DOMAIN uploaded_files :
            ~MatchesSome(reqFiles, uploaded_files[i]) =>
                \E m \in shown : \E n \in DOMAIN m.names : m.names[n] = uploaded_files[i]

RecognizedFiles(t) ==
    {i \in DOMAIN uploaded_files : Classify(reqFiles, uploaded_files[i]) = t}

\* C4: when process_files has returned for the first batch, each recognized
\* file was written once and has one UploadLog row: per record type, as many
\* rows as recognized files of that type.
C4_OneUploadOneRowPerFile ==
    (pc = "returned" /\ runs = 0) =>
        /\ Len(saved) = Cardinality(UNION {RecognizedFiles(t) : t \in RecordTypes})
        /\ \A t \in RecordTypes :
              Cardinality({i \in DOMAIN uploadLog : uploadLog[i].file_type = t})
                  = Cardinality(RecognizedFiles(t))

\* C5: a scope that has exited holds no connection and has put back exactly
\* what it got, at most one; the pool's borrowed count is the number of
\* sessions holding a connection.
C5_ReleasedOnEveryExit ==
    /\ \A s \in Sessions :
          /\ sess[s].put <= sess[s].got /\ sess[s].got <= 1
          /\ sess[s].pc = "exited" => (~sess[s].conn /\ sess[s].put = sess[s].got)
          /\ sess[s].conn <=> (sess[s].got = 1 /\ sess[s].put = 0)
    /\ borrowed = Cardinality({s \in Sessions : sess[s].conn})

\* C5 witness: commit raised, rollback was called, cursor.close raised, and the
\* connection is back in the pool.
C5_Witness ==
    \E s \in Sessions :
        /\ sess[s].pc = "exited" /\ sess[s].kind = "cursor"
        /\ sess[s].commitCalled /\ sess[s].rollbackCalled /\ sess[s].exc = "close"
        /\ sess[s].got = 1 /\ sess[s].put = 1

CursorScopeExited(s) ==
    sess[s].pc = "exited" /\ sess[s].kind = "cursor" /\ sess[s].entered

\* C6 as stated: committed exactly when the body completed; when the body
\* raised, rollback called, commit not called, the body's exception propagates.
C6_CommitIffBodyCompletes ==
    \A s \in Sessions :
        CursorScopeExited(s) =>
            /\ sess[s].committed <=> sess[s].body = "completed"
            /\ sess[s].body # "completed" =>
                  /\ sess[s].rollbackCalled
                  /\ ~sess[s].commitCalled
                  /\ sess[s].exc = sess[s].body

\* C6 amended: commit is called exactly when the body completed, and the
\* transaction is committed only then; a body raising an Exception gets
\* rollback and no commit, and what propagates is the body's exception unless
\* rollback or cursor.close raised; a body raising a bare BaseException gets
\* neither commit nor rollback.
C6_CommitCalledIffBodyCompletes ==
    \A s \in Sessions :
        CursorScopeExited(s) =>
            /\ sess[s].commitCalled <=> sess[s].body = "completed"
            /\ sess[s].committed => sess[s].body = "completed"
            /\ sess[s].body = "exception" =>
                  /\ sess[s].rollbackCalled
                  /\ sess[s].exc \in {"exception", "rollback", "close"}
            /\ sess[s].body = "base" =>
                  /\ ~sess[s].rollbackCalled
                  /\ sess[s].exc \in {"base", "close"}

\* C6 witness: a body raised an Exception, rollback ran without raising and
\* the body's exception is what the caller sees.
C6_Witness ==
    \E s \in Sessions :
        /\ CursorScopeExited(s)
        /\ sess[s].body = "exception" /\ sess[s].rollbackCalled
        /\ ~sess[s].commitCalled /\ sess[s].exc = "exception"

C8_SuccessOnlyIfEveryFileSucceeded ==
    (runs = 0 /\ \E m \in shown : m.kind = "process_success") =>
        /\ result.kind = "returned" /\ result.success
        /\ \A t \in RecordTypes :
              Cardinality({i \in DOMAIN uploadLog :
                              /\ uploadLog[i].file_type = t
                              /\ uploadLog[i].status = "success"
                              /\ uploadLog[i].records_failed = 0})
                  = Cardinality(RecognizedFiles(t))

\* C9: when process_files raised, what is on the page is never the raw text
\* of the exception.
C9_NoRawExceptionShown ==
    \A m \in shown : m.kind = "process_error" => ~m.raw

ReferencingTypes == {"employee", "allocation", "timesheet"}

\* C10: every non-null reference of a loaded row resolves to a loaded row of
\* the referenced table; and once a file's load has resolved, a row with an
\* unresolved reference is not among the loaded rows and each unresolved
\* field is recorded as failing.
C10_NoDanglingReferences ==
    /\ \A t \in ReferencingTypes : \A r \in db[t] : \A f \in FKFields(t) :
          r.fk[f] # Null => \E x \in db[FKTarget(f)] : x.id = r.fk[f]
    /\ (cur # NoFile /\ cur.phase = "Logging" /\ cur.outcome # "malformed") =>
          \A i \in DOMAIN cur.rows : \A f \in FKFields(cur.file_type) :
              (cur.rows[i].fk[f] # Null
                 /\ ~\E x \in db[FKTarget(f)] : x.id = cur.rows[i].fk[f])
              => (i \notin cur.loaded /\ f \in cur.errors[i])

\* C10 witness: an employee is loaded with a department that exists, and a
\* row was rejected for a project_id that did not resolve.
C10_Witness ==
    /\ \E r \in db["employee"] : r.fk["department_id"] # Null
    /\ \E e \in valErrors : e.field_name = "project_id"

\* the dependencies of design 4.4: a must be loaded before b
MustPrecede(a, b) ==
    \/ a \in {"department", "designation"} /\ b = "employee"
    \/ a \in {"employee", "project"} /\ b \in {"allocation", "timesheet"}

\* C11: within one submission no file is taken up while a file it depends on
\* is still waiting, the waiting files are in dependency order, and the rows
\* of the batch are in the log in dependency order, whatever the upload order.
C11_DependencyOrder ==
    /\ cur # NoFile =>
          \A i \in DOMAIN queue : ~MustPrecede(queue[i].file_type, cur.file_type)
    /\ \A i, j \in DOMAIN queue :
          i < j => ~MustPrecede(queue[j].file_type, queue[i].file_type)
    /\ runs = 0 =>
          \A i, j \in DOMAIN uploadLog :
              i < j => ~MustPrecede(uploadLog[j].file_type, uploadLog[i].file_type)

\* C11 witness: the dependent file was uploaded first, its prerequisite
\* second; the prerequisite is logged and the dependent file is in Loading.
C11_Witness ==
    /\ Len(uploaded_files) = 2
    /\ MustPrecede(Classify(reqFiles, uploaded_files[2]),
                   Classify(reqFiles, uploaded_files[1]))
    /\ cur # NoFile /\ cur.phase = "Loading"
    /\ cur.file_type = Classify(reqFiles, uploaded_files[1])
    /\ Len(uploadLog) = 1
    /\ uploadLog[1].file_type = Classify(reqFiles, uploaded_files[2])

\* C12: a file that failed Reading is never in Validating or Loading and has
\* no row read, validated or loaded; the step it takes next writes its
\* UploadLog row with records_processed = 0 and status failed and leaves the
\* batch running with the files still waiting.
C12_MalformedSkipsToLogged ==
    [][(cur # NoFile /\ cur.malformed) =>
          /\ cur.phase = "Logging"
          /\ cur.rows = <<>> /\ cur.errors = <<>> /\ cur.loaded = {}
          /\ Len(uploadLog') = Len(uploadLog) + 1
          /\ uploadLog'[Len(uploadLog')].file_type = cur.file_type
          /\ uploadLog'[Len(uploadLog')].records_processed = 0
          /\ uploadLog'[Len(uploadLog')].status = "failed"
          /\ db' = db
          /\ pc' = "pipeline" /\ queue' = queue /\ cur' = NoFile]_vars

\* C12 witness: the first file of a batch of two failed Reading and is about
\* to be logged.
C12_Witness ==
    /\ cur # NoFile /\ cur.malformed /\ cur.phase = "Logging"
    /\ fileStatus = <<>> /\ queue # <<>>

\* C13: the step in which a file's load transaction fails leaves every table
\* as it was and nothing of the file loaded; the step after it writes the
\* file's UploadLog row with status failed, records_success = 0 and
\* records_failed = records_processed, and leaves the batch running with the
\* files still waiting.
C13_LoadFailureRollsBack ==
    [][/\ (cur # NoFile /\ cur.phase = "Loading" /\ cur'.outcome = "rolledback") =>
             (db' = db /\ cur'.loaded = {})
       /\ (cur # NoFile /\ cur.outcome = "rolledback") =>
             /\ cur.phase = "Logging" /\ cur.loaded = {}
             /\ Len(uploadLog') = Len(uploadLog) + 1
             /\ uploadLog'[Len(uploadLog')].file_type = cur.file_type
             /\ uploadLog'[Len(uploadLog')].status = "failed"
             /\ uploadLog'[Len(uploadLog')].records_success = 0
             /\ uploadLog'[Len(uploadLog')].records_processed = Len(cur.rows)
             /\ uploadLog'[Len(uploadLog')].records_failed = Len(cur.rows)
             /\ db' = db
             /\ pc' = "pipeline" /\ queue' = queue /\ cur' = NoFile]_vars

\* C13 witness: the load of a file with an accepted row was rolled back, the
\* table does not hold the row, and another file of the batch is waiting.
C13_Witness ==
    /\ cur # NoFile /\ cur.phase = "Logging" /\ cur.outcome = "rolledback"
    /\ \E i \in AcceptedRows(cur) :
          \A x \in db[cur.file_type] :
              RowKey(cur.file_type, x) # RowKey(cur.file_type, cur.rows[i])
    /\ queue # <<>>

\* C14: a step that writes to the UploadLog appends the row of the file in
\* progress, whose load has resolved (committed, rolled back, or never begun
\* for a malformed file), and touches no entity table; a step that changes an
\* entity table writes nothing to the ledger; and every row already in the
\* UploadLog is still there, unchanged, after any step.
C14_LedgerAfterLoadAndKept ==
    [][/\ uploadLog' # uploadLog =>
             /\ cur # NoFile /\ cur.phase = "Logging"
             /\ cur.outcome \in {"committed", "rolledback", "malformed"}
             /\ Len(uploadLog') = Len(uploadLog) + 1
             /\ uploadLog'[Len(uploadLog')].file_type = cur.file_type
             /\ db' = db
       /\ db' # db => (uploadLog' = uploadLog /\ valErrors' = valErrors)
       /\ \A i \in DOMAIN uploadLog :
             i \in DOMAIN uploadLog' /\ uploadLog'[i] = uploadLog[i]]_vars

\* C14 witness: the batch was aborted after its first file was logged, and
\* the row of that file is the last of the UploadLog.
C14_Witness ==
    /\ pc = "raised" /\ Len(fileStatus) = 1 /\ queue # <<>>
    /\ Len(uploadLog) >= 1
    /\ uploadLog[Len(uploadLog)].file_type = ProcessingOrder(files_dict)[1].file_type

\* the rows of the given file that the run logged as upload k rejected
RejectedIn(k) ==
    {i \in DOMAIN given.contents.rows :
        \E e \in valErrors : e.upload_id = k /\ e.row = i}

\* the run logged as upload k loaded every row of the given file it accepted
LoadedAllAccepted(k) ==
    uploadLog[k].records_success
        = Len(given.contents.rows) - Cardinality(RejectedIn(k))

\* the given file went through two runs; `first` and `second` are their rows
SecondRunReturned ==
    /\ pc = "returned" /\ runs = 1
    /\ given.logged = given.loggedBefore + 1
    /\ Len(uploadLog) = given.logged + 1

InvalidFields(t, row) ==
    row.bad + Cardinality({f \in FKFields(t) :
                              /\ row.fk[f] # Null
                              /\ \A x \in db[FKTarget(f)] : x.id # row.fk[f]})

\* C16: the step that logs a file that was read adds, for each of its rows,
\* as many ValidationError rows as the row has invalid fields (none for a row
\* without one), all with the upload_id of the UploadLog row written in the
\* same step, an id no earlier error row carries; and a row with an invalid
\* field is not among the rows loaded.
C16_OneErrorRowPerInvalidField ==
    [][(cur # NoFile /\ cur.phase = "Logging" /\ ~cur.malformed) =>
          LET id == uploadLog'[Len(uploadLog')].upload_id
              new == valErrors' \ valErrors
          IN /\ Len(uploadLog') = Len(uploadLog) + 1
             /\ \A e \in new : e.upload_id = id /\ e.row \in DOMAIN cur.rows
             /\ \A e \in valErrors : e.upload_id # id
             /\ \A i \in DOMAIN cur.rows :
                   /\ Cardinality({e \in new : e.row = i})
                         = InvalidFields(cur.file_type, cur.rows[i])
                   /\ InvalidFields(cur.file_type, cur.rows[i]) >= 1 =>
                         i \notin cur.loaded]_vars

\* C16 witness: a row with three invalid fields has its three error rows
\* under the upload_id of a logged file with a failed record.
C16_Witness ==
    \E k \in DOMAIN uploadLog :
        /\ uploadLog[k].upload_id = k /\ uploadLog[k].records_failed >= 1
        /\ Cardinality({e \in valErrors : e.upload_id = k /\ e.row = 1}) = 3

\* C17: a log_* call that has returned has returned True or False, never
\* raised; it returned False whenever something failed (no Session, details
\* json cannot encode, a database error, a failing close); and it returned
\* True only with its entry committed as the last row of system_logs.
C17_LoggingNeverRaises ==
    logCall.pc = "returned" =>
        /\ logCall.result \in {"True", "False"}
        /\ logCall.failure # "none" => logCall.result = "False"
        /\ activity_logger.Session = "None" => logCall.result = "False"
        /\ logCall.details = "unserializable" => logCall.result = "False"
        /\ logCall.result = "True" =>
              /\ logCall.committed /\ system_logs # <<>>
              /\ system_logs[Len(system_logs)].event_type = logCall.event_type

\* C17 witness: log_file_processing has returned False after the commit
\* raised, with the entry of an earlier call in system_logs.
C17_Witness ==
    /\ logCall.pc = "returned" /\ logCall.method = "log_file_processing"
    /\ logCall.failure = "database" /\ logCall.result = "False"
    /\ ~logCall.committed /\ Len(system_logs) = 1

\* C18: when a script run of the upload page has finished, every file it
\* saved has a FILE_UPLOAD notification, and every file the pipeline logged
\* has a FILE_PROCESSING notification carrying the counts of its UploadLog row.
C18_EveryFileEventNotified ==
    pc = "rendered" =>
        /\ \A i \in DOMAIN saved :
              \E k \in DOMAIN notified :
                  /\ notified[k].event_type = "FILE_UPLOAD"
                  /\ notified[k].filename = saved[i]
        /\ \A i \in DOMAIN uploadLog :
              \E k \in DOMAIN notified :
                  /\ notified[k].event_type = "FILE_PROCESSING"
                  /\ notified[k].filename.file_type = uploadLog[i].file_type
                  /\ notified[k].records_processed = uploadLog[i].records_processed
                  /\ notified[k].records_success = uploadLog[i].records_success
                  /\ notified[k].records_failed = uploadLog[i].records_failed

\* C19: classifying the uploaded batch leaves the upload folder as it was
\* before the run (empty) and writes no file; as long as process_files has
\* not been entered the database is as it was; and no path written, present
\* in the folder or entered in the mapping bears the name of an uploaded
\* file that matches no fragment.
C19_ClassifyingHasNoSideEffect ==
    /\ (runs = 0 /\ pc \in {"history", "rendered"} /\ result = NoResult) =>
          /\ folder = {} /\ saved = <<>>
          /\ db = EmptyStore /\ uploadLog = <<>> /\ valErrors = {}
    /\ \A i \in DOMAIN uploaded_files :
          ~MatchesSome(reqFiles, uploaded_files[i]) =>
              /\ \A p \in folder : p.name # uploaded_files[i]
              /\ \A k \in DOMAIN saved : saved[k].name # uploaded_files[i]
              /\ \A t \in DOMAIN files_dict : files_dict[t].name # uploaded_files[i]

\* C20: after any step every UploadLog row and every ValidationError row is
\* still there, unchanged; and the step that renders the upload history
\* changes neither table, nor any entity table.
C20_AuditRowsAppendOnly ==
    [][/\ \A i \in DOMAIN uploadLog :
             i \in DOMAIN uploadLog' /\ uploadLog'[i] = uploadLog[i]
       /\ valErrors \subseteq valErrors'
       /\ pc = "history" =>
             (uploadLog' = uploadLog /\ valErrors' = valErrors /\ db' = db)]_vars

\* C20 witness: the history has been rendered after the second submission,
\* with the rows and the error rows of both submissions in the tables.
C20_Witness ==
    /\ pc = "rendered" /\ runs = 1
    /\ \E m \in shown : m.kind = "history" /\ m.count >= 2
    /\ \E e1, e2 \in valErrors : e1.upload_id = 1 /\ e2.upload_id = Len(uploadLog)
    /\ Len(uploadLog) >= 2 /\ Len(fileStatus) = 1

\* C21: once the schema bootstrap of a rendering has failed, no file of a
\* batch is read, validated, loaded or logged in that rendering; and once
\* process_files has raised, the file in hand and the files left are not
\* touched again.
C21_InfrastructureFailureAbortsBatch ==
    /\ app.bootstrap = "failed" => (cur = NoFile /\ fileStatus = <<>>)
    /\ pc = "raised" => cur = NoFile

\* C22: whenever the upload page is being rendered, or was called in this
\* run of main, create_tables has been attempted in the same run.
C22_BootstrapBeforePage ==
    (pc # "idle" \/ "render_file_upload" \in app.executed \/ app.pc = "file_upload") =>
        /\ "create_tables" \in app.executed
        /\ app.bootstrap \in {"created", "failed"}

\* C22 witness: the bootstrap failed and process_files is running in the
\* same rendering.
C22_Witness ==
    /\ app.bootstrap = "failed" /\ "create_tables" \in app.executed
    /\ pc = "pipeline" /\ cur.phase = "Loading"

\* C24: outside a run of main in which require_auth returned true nothing of
\* the authenticated app has been executed and the upload page is not being
\* rendered; a run in which it returned false is over.
C24_AuthenticationGate ==
    /\ app.auth # "true" =>
          /\ app.executed = {}
          /\ pc = "idle"
          /\ app.pc \in {"idle", "auth", "done"}
    /\ app.auth = "false" => app.pc = "done"

\* C24 witness: require_auth returned false and main has returned, after an
\* earlier authenticated run has left rows in the ledger.
C24_Witness ==
    /\ app.auth = "false" /\ app.pc = "done" /\ app.executed = {}
    /\ runs = 1 /\ uploadLog # <<>>

\* C23: process_files is entered only from the page at rest, by the step that
\* handles the pressed button; once it has returned or raised the page goes
\* on to the result and the history and never enters it again in that run;
\* and inside a run no file goes back among the files waiting.
C23_NoAutomaticRetry ==
    [][/\ (pc' = "pipeline" /\ pc # "pipeline") => (pc = "idle" /\ result = NoResult)
       /\ pc \in {"returned", "raised", "history", "rendered"} => pc' # "pipeline"
       /\ (pc = "pipeline" /\ pc' = "pipeline") =>
             (Len(queue') <= Len(queue) /\ Len(fileStatus') >= Len(fileStatus))]_vars

\* C23 witness: process_files raised with a file of the batch left, the error
\* is on the page and the run has gone on to the history.
C23_Witness ==
    /\ pc = "history" /\ result.kind = "raised" /\ queue # <<>>
    /\ ErrorElement \in shown

\* the position in upload order of the last uploaded file of type t
LastOfType(t) ==
    CHOOSE i \in RecognizedFiles(t) : \A j \in RecognizedFiles(t) : j <= i

\* C30: whenever process_files is running or has ended in this script run,
\* the button was pressed in this run, some uploaded file was recognized, the
\* mapping is not empty, it holds for each of its types the path of the last
\* uploaded file of that type, and the batch holds one file per type of the
\* mapping.
C30_PipelineOnlyOnRequest ==
    pc \in {"pipeline", "returned", "raised"} =>
        /\ \E m \in shown : m.kind = "process_button" /\ m.count = 1
        /\ \E i \in DOMAIN uploaded_files : MatchesSome(reqFiles, uploaded_files[i])
        /\ DOMAIN files_dict # {}
        /\ \A t \in DOMAIN files_dict :
              /\ RecognizedFiles(t) # {}
              /\ files_dict[t] = SavePath(t, uploaded_files[LastOfType(t)])
        /\ \A i, j \in DOMAIN queue : queue[i].file_type = queue[j].file_type => i = j
        /\ Len(queue) + Len(fileStatus) + (IF cur = NoFile THEN 0 ELSE 1)
              = Cardinality(DOMAIN files_dict)

\* C30 witness: two uploaded files of one type, the button pressed, and the
\* pipeline reading the one uploaded last.
C30_Witness ==
    /\ pc = "pipeline" /\ cur.phase = "Reading"
    /\ Cardinality(RecognizedFiles(cur.file_type)) = 2
    /\ cur.path = SavePath(cur.file_type, uploaded_files[2])

CursorScopeEntered(s) == sess[s].kind = "cursor" /\ sess[s].entered

\* C25 as stated: in an entered get_cursor scope the cursor is closed only
\* after commit or rollback was attempted, and the connection goes back to
\* the pool only after the cursor was closed and commit or rollback attempted.
C25_ResolveCloseRelease ==
    \A s \in Sessions :
        CursorScopeEntered(s) =>
            /\ sess[s].closeCalled => (sess[s].commitCalled \/ sess[s].rollbackCalled)
            /\ sess[s].put = 1 =>
                  (sess[s].closeCalled /\ (sess[s].commitCalled \/ sess[s].rollbackCalled))

\* C25 amended: commit and rollback are attempted only with the connection
\* held and the cursor open; the cursor is closed with the connection held;
\* the connection goes back only after the cursor was closed; and the cursor
\* is closed after commit or rollback was attempted unless the body raised a
\* BaseException that is not an Exception, when neither is attempted.
C25_ResolveCloseReleaseUnlessBase ==
    \A s \in Sessions :
        CursorScopeEntered(s) =>
            /\ sess[s].pc \in {"commit", "rollback"} =>
                  (sess[s].conn /\ ~sess[s].closeCalled /\ sess[s].put = 0)
            /\ sess[s].pc = "close" => (sess[s].conn /\ sess[s].put = 0)
            /\ sess[s].put = 1 => sess[s].closeCalled
            /\ (sess[s].closeCalled /\ sess[s].body # "base") =>
                  (sess[s].commitCalled \/ sess[s].rollbackCalled)
            /\ sess[s].body = "base" =>
                  (~sess[s].commitCalled /\ ~sess[s].rollbackCalled)

\* C25 witness: the body raised an Exception, rollback was called, the cursor
\* closed and the connection returned, while another session holds one.
C25_Witness ==
    \E s, o \in Sessions :
        /\ CursorScopeEntered(s) /\ sess[s].body = "exception"
        /\ sess[s].rollbackCalled /\ sess[s].closeCalled /\ sess[s].put = 1
        /\ o # s /\ sess[o].conn

\* the scope of s has exited after its commit raised
CommitFailed(s) ==
    /\ CursorScopeExited(s) /\ sess[s].body = "completed"
    /\ sess[s].commitCalled /\ ~sess[s].committed

\* C26 as stated: after a commit that raised, rollback was called, the cursor
\* closed, the connection returned, and the caller sees the commit's exception.
C26_CommitFailurePropagates ==
    \A s \in Sessions :
        CommitFailed(s) =>
            /\ sess[s].rollbackCalled /\ sess[s].closeCalled
            /\ sess[s].put = 1 /\ ~sess[s].conn
            /\ sess[s].exc = "commit"

\* C26 amended: after a commit that raised, rollback was called, the cursor
\* closed, the connection returned, and the caller sees an exception: the
\* commit's, or that of rollback or cursor.close when one of them raised too;
\* and a scope that exits without an exception after its body completed has
\* committed.
C26_CommitFailureRaises ==
    \A s \in Sessions :
        /\ CommitFailed(s) =>
              /\ sess[s].rollbackCalled /\ sess[s].closeCalled
              /\ sess[s].put = 1 /\ ~sess[s].conn
              /\ sess[s].exc \in {"commit", "rollback", "close"}
        /\ (CursorScopeExited(s) /\ sess[s].exc = "none") => sess[s].committed

\* C26 witness: the commit raised, rollback and close went through, the
\* connection is back and the caller sees the commit's exception.
C26_Witness ==
    \E s \in Sessions :
        /\ CommitFailed(s) /\ sess[s].rollbackCalled /\ sess[s].closeCalled
        /\ sess[s].put = 1 /\ sess[s].exc = "commit" /\ borrowed = 0

\* C27: _initialize_pool has run at most once, and exactly once as soon as
\* DatabasePool() was called; with the pool unset no session has ever got a
\* connection or is past getconn, and a scope that has ended ended on the
\* error of getconn.
C27_InitializedAtMostOnce ==
    /\ initAttempts <= 1
    /\ constructions >= 1 => (instance /\ initAttempts = 1)
    /\ ~poolReady =>
          /\ borrowed = 0
          /\ \A s \in Sessions :
                /\ sess[s].got = 0 /\ ~sess[s].conn
                /\ sess[s].pc \in {"idle", "getconn", "release", "exited"}
                /\ sess[s].pc \in {"release", "exited"} => sess[s].exc = "getconn"

\* C27 witness: DatabasePool() was called again after the initialization
\* raised, and a get_cursor scope has since failed in getconn.
C27_Witness ==
    /\ constructions = 2 /\ initAttempts = 1 /\ instance /\ ~poolReady
    /\ \E s \in Sessions :
          sess[s].pc = "exited" /\ sess[s].kind = "cursor" /\ sess[s].exc = "getconn"

\* C28: never more than maxconn connections are borrowed; a session whose
\* acquisition failed holds no connection and has put none back; and the step
\* in which an acquisition fails leaves the number borrowed as it was.
C28_BorrowedNeverExceedsMax ==
    /\ borrowed <= maxconn
    /\ \A s \in Sessions :
          sess[s].exc = "getconn" => (~sess[s].conn /\ sess[s].put = 0 /\ sess[s].got = 0)

\* C29: __init__ has run at most once, and once as soon as get_logger was
\* called; the logger is the one the first call built, whatever engine later
\* calls pass; and with a logger whose construction failed no row was ever
\* written, every log_* call that has returned returned False and every
\* get_logs returned no row.
C29_LoggerBuiltOnce ==
    /\ activity_logger.inits <= 1
    /\ activity_logger # NoLogger =>
          /\ activity_logger.inits = 1
          /\ activity_logger.engine =
                (IF activity_logger.Session = "None" THEN "None"
                 ELSE IF activity_logger.built_with = "None" THEN "own"
                 ELSE activity_logger.built_with)
    /\ activity_logger.Session = "None" =>
          /\ system_logs = <<>>
          /\ logCall.pc = "returned" =>
                /\ logCall.method \in Methods => logCall.result = "False"
                /\ logCall.method = "get_logs" => logCall.rows = <<>>

\* C29 witness: the logger was built without an engine and failed; a later
\* get_logger(engine) has returned it, and get_logs has returned no row.
C29_Witness ==
    /\ activity_logger.Session = "None" /\ activity_logger.inits = 1
    /\ activity_logger.built_with = "None" /\ activity_logger.asked = "engine"
    /\ logCall.pc = "returned" /\ logCall.method = "get_logs" /\ logCall.rows = <<>>

====
